---- MODULE Spec2Model ----
(***************************************************************************)
(* A model of the ucpliberty player crawler:                               *)
(*   - the indexed player cache (src/scraper/players_cache.py),            *)
(*   - the asyncio crawl coordinator (src/scraper/player_scraper.py),      *)
(*   - the browser crawl coordinator (src/player_scraper.py) with its      *)
(*     plain cache (src/players_cache.py).                                 *)
(***************************************************************************)
EXTENDS Integers, Sequences, FiniteSets, TLC

VARIABLES
    cache,          \* PlayerCache.cache: player name -> PlayerData (a dict)
    lookup_cache,   \* PlayerCache.lookup_cache: key -> (player name -> count)
    items,          \* PlayerCache.items: item display name -> item key
    now,            \* the wall clock, in seconds (time.time())
    view,           \* the mapping a caller of find_users_with_item holds
    last_call,      \* the update_player call just made, when its payload parses
    players_queue,  \* PlayerScraper.players_queue (FIFO)
    retry_counts,   \* asyncio PlayerScraper.retry_counts: player -> retries
    processed,      \* asyncio PlayerScraper.processed
    tasks,          \* the coroutines handed to asyncio.gather, in order
    pc,             \* where scrape_all_players stands
    roster,         \* what players_manager.get_players() returned to this crawl
    failed,         \* the failed players the crawl reported
    saves,          \* calls of save_cache() in this crawl
    before,         \* the primary store as the crawl started
    retry_queue,    \* browser PlayerScraper.retry_queue (FIFO)
    player_attempts, \* browser PlayerScraper.player_attempts: player -> failures
    active_users,   \* _process_batch: the players whose tab was opened
    requests,       \* webclient.driver.requests that have a response
    windows,        \* the player tabs open in the browser
    opens,          \* window.open calls made per player in this crawl
    disk            \* the database file, once a step of the model wrote or read it

cache_vars == <<cache, lookup_cache, items, now, view, last_call>>
async_vars == <<retry_counts, processed, tasks>>
browser_vars == <<retry_queue, player_attempts, active_users, requests, windows,
                  opens>>
crawl_vars == <<players_queue, pc, roster, failed, saves, before, async_vars,
                browser_vars>>

----------------------------------------------------------------------------
(* Bounds of the model.                                                    *)

MaxItems == 1       \* longest raw inventory list of a payload
MaxClock == 1       \* last second of the wall clock
MaxTasks == 4       \* most tasks one crawl gathers
BatchSize == 2      \* batch_size of the browser coordinator (20 in main.py)
MaxEntries == 2     \* longest list of a payload handed to the parser alone

----------------------------------------------------------------------------
(* Values.                                                                 *)

Players == {"Alice", "Bob"}

\* item.get('item_key') of a raw entry that has no key (or an empty one)
NoKey == ""
ItemKeys == {"pistol"}
RawItems == [item_key : ItemKeys \cup {NoKey}]

\* the vehicle catalog handed to update_player: model hash -> display name
VehicleDict == (1 :> "Sultan")
UnknownHash == 999
ModelHashes == {1, UnknownHash}
RawVehicles == [ModelHash : ModelHashes]

\* the item catalog: display name -> item key
ItemsDict == ("Pistol" :> "pistol")
ItemNames == {"Pistol", "Knife"}

EmptyDict == <<>>

SeqsUpTo(S, n) == UNION {[1..k -> S] : k \in 0..n}

(* The text of a profile response, by what json.loads and the parser make  *)
(* of it:                                                                  *)
(*   garbage  not JSON at all (json.loads raises)                          *)
(*   notdict  JSON, but not an object (.get raises)                        *)
(*   nouser   an object without 'user' (user_data = {})                    *)
(*   baduser  an object whose 'user' is null (the parser raises)           *)
(*   ok       an object with a 'user' object                               *)
BadPayloads == {[kind |-> k] : k \in {"garbage", "notdict", "nouser", "baduser"}}
OkPayloads ==
    [kind : {"ok"},
     Items : SeqsUpTo(RawItems, MaxItems),
     PostOfficeItems : SeqsUpTo(RawItems, 1),
     personal_vehicles : SeqsUpTo(RawVehicles, 1)]
Payloads == BadPayloads \cup OkPayloads

\* a payload that decodes and whose 'user' is null: _parse_inventory raises
NullUserPayload == [kind |-> "baduser"]

----------------------------------------------------------------------------
(* The parser.                                                             *)

\* datetime.fromtimestamp(ts).strftime("%Y-%m-%d %H:%M:%S"): a record holds the
\* time of its upsert as text, not as the number of seconds
strftime(ts) == <<"%Y-%m-%d %H:%M:%S", ts>>

PlayerItem(name, count) == [name |-> name, count |-> count]
PlayerVehicle(model_hash, name) == [model_hash |-> model_hash, name |-> name]
PlayerData(its, vehicles, last_updated) ==
    [items |-> its, vehicles |-> vehicles, last_updated |-> last_updated]

RECURSIVE add_items(_, _)
add_items(source_items, its) ==
    IF source_items = <<>> THEN its
    ELSE LET item_key == Head(source_items).item_key
             next == IF item_key = NoKey THEN its
                     ELSE IF item_key \in DOMAIN its
                          THEN [its EXCEPT ![item_key].count = @ + 1]
                          ELSE its @@ (item_key :> PlayerItem(item_key, 1))
         IN add_items(Tail(source_items), next)

\* user_data of a decoded envelope: the 'user' object, or {} without one
UserData(inventory_json) ==
    IF inventory_json.kind = "ok"
    THEN inventory_json
    ELSE [kind |-> "ok", Items |-> <<>>, PostOfficeItems |-> <<>>,
          personal_vehicles |-> <<>>]

\* (mutant) the mailbox is not read
parse_inventory_items_only(user_data_json) ==
    add_items(user_data_json.Items, EmptyDict)

parse_inventory(user_data_json) ==
    add_items(user_data_json.PostOfficeItems,
              add_items(user_data_json.Items, EmptyDict))

\* (mutant) a vehicle the catalog does not know is left out of the record
parse_vehicles_known_only(vehicles_json, vehicle_dict) ==
    LET known == SelectSeq(vehicles_json, LAMBDA v : v.ModelHash \in DOMAIN vehicle_dict)
    IN [i \in 1..Len(known) |->
           PlayerVehicle(known[i].ModelHash, vehicle_dict[known[i].ModelHash])]

parse_vehicles(vehicles_json, vehicle_dict) ==
    [i \in 1..Len(vehicles_json) |->
        LET h == vehicles_json[i].ModelHash
        IN PlayerVehicle(h, IF h \in DOMAIN vehicle_dict
                            THEN vehicle_dict[h] ELSE "Unknown Vehicle")]

\* json.loads(inventory_data) and inventory_json.get('user', {}) both return
JsonDecodes(inventory_data) == inventory_data.kind \notin {"garbage", "notdict"}
\* _parse_inventory(user_data) raises: user_data is not an object
ParseRaises(inventory_data) == inventory_data.kind = "baduser"

----------------------------------------------------------------------------
(* The indexed cache (src/scraper/players_cache.py).                       *)

Put(d, k, v) == [x \in DOMAIN d \cup {k} |-> IF x = k THEN v ELSE d[x]]
Pop(d, k) == [x \in DOMAIN d \ {k} |-> d[x]]

VehicleKey(name) == "vehicle:" \o name
VehicleKeys(player_data) ==
    {VehicleKey(player_data.vehicles[i].name) : i \in DOMAIN player_data.vehicles}

\* (mutant) the old contributions are left in the index
RemoveNothing(l, player_name, old_data) == l

\* for each key the player's old record names (items, then vehicles) that is
\* in the lookup cache: lookup_cache[key].pop(player_name, None)
RemoveFromLookup(l, player_name, old_data) ==
    [k \in DOMAIN l |->
        IF k \in DOMAIN old_data.items \cup VehicleKeys(old_data)
        THEN Pop(l[k], player_name) ELSE l[k]]

\* lookup_cache[item_id][player_name] = item.count for every item of the
\* record, the key's dict being created when missing
AddItemsToLookup(l, player_name, player_data) ==
    [k \in DOMAIN l \cup DOMAIN player_data.items |->
        IF k \in DOMAIN player_data.items
        THEN Put(IF k \in DOMAIN l THEN l[k] ELSE EmptyDict,
                 player_name, player_data.items[k].count)
        ELSE l[k]]

\* lookup_cache["vehicle:<name>"][player_name] = 1 for every vehicle
AddVehiclesToLookup(l, player_name, player_data) ==
    [k \in DOMAIN l \cup VehicleKeys(player_data) |->
        IF k \in VehicleKeys(player_data)
        THEN Put(IF k \in DOMAIN l THEN l[k] ELSE EmptyDict, player_name, 1)
        ELSE l[k]]

AddToLookup(l, player_name, player_data) ==
    AddVehiclesToLookup(AddItemsToLookup(l, player_name, player_data),
                        player_name, player_data)

RECURSIVE RebuildFrom(_, _, _)
RebuildFrom(c, names, l) ==
    IF names = {} THEN l
    ELSE LET player_name == CHOOSE n \in names : TRUE
         IN RebuildFrom(c, names \ {player_name},
                        AddToLookup(l, player_name, c[player_name]))

rebuild_lookup_cache(c) == RebuildFrom(c, DOMAIN c, EmptyDict)

\* (mutant) a player already in the cache keeps the record it has
update_player_setdefault(c, l, player_name, inventory_data, vehicle_dict, ts) ==
    IF player_name \in DOMAIN c \/ ~JsonDecodes(inventory_data)
           \/ ParseRaises(inventory_data)
    THEN <<c, l>>
    ELSE LET player_data ==
                 PlayerData(parse_inventory(UserData(inventory_data)),
                            parse_vehicles(UserData(inventory_data).personal_vehicles,
                                           vehicle_dict),
                            strftime(ts))
         IN <<Put(c, player_name, player_data),
              AddToLookup(l, player_name, player_data)>>

\* (mutant) the counts of the payload are added to the counts of the record
update_player_accumulating(c, l, player_name, inventory_data, vehicle_dict, ts) ==
    IF ~JsonDecodes(inventory_data) \/ ParseRaises(inventory_data) THEN <<c, l>>
    ELSE LET removed == IF player_name \in DOMAIN c
                        THEN RemoveFromLookup(l, player_name, c[player_name])
                        ELSE l
             old == IF player_name \in DOMAIN c THEN c[player_name].items ELSE EmptyDict
             fresh == parse_inventory(UserData(inventory_data))
             player_data ==
                 PlayerData([k \in DOMAIN old \cup DOMAIN fresh |->
                                PlayerItem(k, (IF k \in DOMAIN old THEN old[k].count ELSE 0)
                                              + (IF k \in DOMAIN fresh
                                                 THEN fresh[k].count ELSE 0))],
                            parse_vehicles(UserData(inventory_data).personal_vehicles,
                                           vehicle_dict),
                            strftime(ts))
         IN <<Put(c, player_name, player_data),
              AddToLookup(removed, player_name, player_data)>>

(* update_player: the new <<cache, lookup_cache>>.  json.loads and the     *)
(* lookup of 'user' run before the lock is taken; the old contributions    *)
(* are removed, the record is parsed and stored and the new contributions  *)
(* are added under the lock; an exception anywhere ends the call, is       *)
(* logged, and leaves what was written before it.                          *)
update_player(c, l, player_name, inventory_data, vehicle_dict, ts) ==
    IF ~JsonDecodes(inventory_data) THEN <<c, l>>
    ELSE LET removed == IF player_name \in DOMAIN c
                        THEN RemoveFromLookup(l, player_name, c[player_name])
                        ELSE l
         IN IF ParseRaises(inventory_data) THEN <<c, removed>>
            ELSE LET user_data == UserData(inventory_data)
                     player_data ==
                         PlayerData(parse_inventory(user_data),
                                    parse_vehicles(user_data.personal_vehicles,
                                                   vehicle_dict),
                                    strftime(ts))
                 IN <<Put(c, player_name, player_data),
                      AddToLookup(removed, player_name, player_data)>>

NoPlayer == "None"
get_player(c, player_name) ==
    IF player_name \in DOMAIN c THEN c[player_name] ELSE NoPlayer

(* find_users_with_item hands back the dict stored under the item's key    *)
(* itself (an alias of the live index entry), or a fresh empty dict when   *)
(* the name is unknown or the key has no entry.                            *)
NoView == [held |-> FALSE]
find_users_with_item(its, l, item_name) ==
    IF item_name \notin DOMAIN its THEN [held |-> TRUE, alias |-> FALSE, key |-> NoKey]
    ELSE IF its[item_name] \in DOMAIN l
         THEN [held |-> TRUE, alias |-> TRUE, key |-> its[item_name]]
         ELSE [held |-> TRUE, alias |-> FALSE, key |-> its[item_name]]

\* what the holder of a view reads in it
ViewMapping(v, l) == IF v.alias THEN l[v.key] ELSE EmptyDict

find_users_with_vehicle(l, vehicle_name) ==
    IF VehicleKey(vehicle_name) \in DOMAIN l
    THEN DOMAIN l[VehicleKey(vehicle_name)] ELSE {}


(* The database file.  Its text is a JSON object: player name -> the       *)
(* to_dict of the record.  A file is                                       *)
(*   missing    not there (os.path.exists is False)                        *)
(*   corrupt    there, but not JSON (json.load raises)                     *)
(*   malformed  JSON, but some entry is not a record (building PlayerData  *)
(*              raises); data holds the entries that are records           *)
(*   valid      JSON in which every entry is a record                      *)
NotSeen == [state |-> "unseen"]

\* dataclasses.asdict of an item and of a vehicle, and PlayerData.to_dict
item_to_dict(item) == [name |-> item.name, count |-> item.count]
vehicle_to_dict(vehicle) == [model_hash |-> vehicle.model_hash, name |-> vehicle.name]
to_dict(player_data) ==
    [items |-> [k \in DOMAIN player_data.items |-> item_to_dict(player_data.items[k])],
     vehicles |-> [i \in DOMAIN player_data.vehicles |->
                      vehicle_to_dict(player_data.vehicles[i])],
     last_updated |-> player_data.last_updated]

\* the object json.dump writes: {name: data.to_dict() for name, data in cache}
json_dump(c) == [name \in DOMAIN c |-> to_dict(c[name])]

\* save_cache: the file is rewritten with the dump of the primary store
save_cache(c) == [state |-> "valid", data |-> json_dump(c)]

\* (mutant) the items are read back without their counts
from_dict_count_one(data) ==
    [items |-> [k \in DOMAIN data.items |-> [name |-> data.items[k].name, count |-> 1]],
     vehicles |-> data.vehicles, last_updated |-> data.last_updated]

\* the PlayerData _load_cache builds from one entry of the file:
\* PlayerItem(**v) per item, PlayerVehicle(**v) per vehicle
from_dict(data) ==
    PlayerData([k \in DOMAIN data.items |->
                   PlayerItem(data.items[k].name, data.items[k].count)],
               [i \in DOMAIN data.vehicles |->
                   PlayerVehicle(data.vehicles[i].model_hash, data.vehicles[i].name)],
               data.last_updated)

\* (mutant) the entries that could be read are kept when another is malformed
load_cache_keeping_readable(db_file) ==
    IF db_file.state \in {"valid", "malformed"}
    THEN LET c == [name \in DOMAIN db_file.data |-> from_dict(db_file.data[name])]
         IN <<c, rebuild_lookup_cache(c)>>
    ELSE <<EmptyDict, EmptyDict>>

(* _load_cache: a missing file leaves the empty cache of __init__, a file  *)
(* that does not decode or holds a malformed entry resets both structures, *)
(* a stored cache is read and the lookup cache rebuilt from it.            *)
load_cache(db_file) ==
    IF db_file.state = "valid"
    THEN LET c == [name \in DOMAIN db_file.data |-> from_dict(db_file.data[name])]
         IN <<c, rebuild_lookup_cache(c)>>
    ELSE <<EmptyDict, EmptyDict>>

\* what parsing a decodable payload stores for a player
RecordOf(inventory_data, ts) ==
    PlayerData(parse_inventory(UserData(inventory_data)),
               parse_vehicles(UserData(inventory_data).personal_vehicles, VehicleDict),
               strftime(ts))

\* the database files a cache is constructed on
DbFiles ==
    {[state |-> "missing"], [state |-> "corrupt"], [state |-> "valid", data |-> EmptyDict]}
    \cup {[state |-> "valid", data |-> json_dump(p :> RecordOf(d, 0))] :
              p \in Players, d \in OkPayloads}

----------------------------------------------------------------------------
(* The cache on its own: update_player and the readers, called in any      *)
(* order by one event loop (no call suspends inside the cache).            *)

NoCall == [made |-> FALSE]
\* update_player(player_name, inventory_data) called at time ts with a payload
\* that parses: the player, and the record the parser builds from the payload
CallOf(player_name, inventory_data, ts) ==
    IF JsonDecodes(inventory_data) /\ ~ParseRaises(inventory_data)
    THEN [made |-> TRUE, player_name |-> player_name,
          record |-> RecordOf(inventory_data, ts)]
    ELSE NoCall

\* a coordinator as constructed: nothing queued, nothing run
CrawlIdle ==
    /\ players_queue = <<>>
    /\ retry_counts = EmptyDict
    /\ processed = {}
    /\ tasks = <<>>
    /\ pc = "idle"
    /\ roster = <<>>
    /\ failed = {}
    /\ saves = 0
    /\ before = EmptyDict
    /\ retry_queue = <<>>
    /\ player_attempts = EmptyDict
    /\ active_users = <<>>
    /\ requests = <<>>
    /\ windows = {}
    /\ opens = EmptyDict
    /\ disk = NotSeen

CacheInit ==
    /\ \E db_file \in DbFiles :
          /\ cache = load_cache(db_file)[1]
          /\ lookup_cache = load_cache(db_file)[2]
    /\ items = ItemsDict
    /\ now = 0
    /\ view = NoView
    /\ last_call = NoCall
    /\ CrawlIdle

UpdatePlayerCall(player_name, inventory_data) ==
    LET r == update_player(cache, lookup_cache, player_name, inventory_data,
                           VehicleDict, now)
    IN /\ cache' = r[1]
       /\ lookup_cache' = r[2]
       /\ last_call' = CallOf(player_name, inventory_data, now)
       /\ UNCHANGED <<items, now, view>>
       /\ UNCHANGED <<crawl_vars, disk>>

UpdatePlayer ==
    \E player_name \in Players, inventory_data \in Payloads :
        UpdatePlayerCall(player_name, inventory_data)

FindUsersWithItem ==
    \E item_name \in ItemNames :
        /\ view' = find_users_with_item(items, lookup_cache, item_name)
        /\ last_call' = NoCall
        /\ UNCHANGED <<cache, lookup_cache, items, now>>
        /\ UNCHANGED <<crawl_vars, disk>>

\* the caller is done with the mapping it was handed
DropView ==
    /\ view.held
    /\ view' = NoView
    /\ last_call' = NoCall
    /\ UNCHANGED <<cache, lookup_cache, items, now>>
    /\ UNCHANGED <<crawl_vars, disk>>

Tick ==
    /\ now < MaxClock
    /\ now' = now + 1
    /\ last_call' = NoCall
    /\ UNCHANGED <<cache, lookup_cache, items, view>>
    /\ UNCHANGED <<crawl_vars, disk>>

vars == <<cache_vars, crawl_vars, disk>>

\* upserts as the clock advances
CacheNext == UpdatePlayer \/ Tick
SpecCache == CacheInit /\ [][CacheNext]_vars

\* upserts while a caller holds what find_users_with_item handed back
ReaderNext == UpdatePlayer \/ FindUsersWithItem \/ DropView
SpecReader == CacheInit /\ [][ReaderNext]_vars

----------------------------------------------------------------------------
(* The asyncio coordinator (src/scraper/player_scraper.py) on the indexed  *)
(* cache.  Everything up to `await asyncio.gather` runs without            *)
(* suspending; the tasks then take their first step (up to the profile     *)
(* request) one after the other, and the responses arrive in any order.    *)

max_retries == 3

\* what players_manager.get_players() may return: [] when the request
\* fails, else the names of the roster file
Rosters == {<<>>, <<"Bob">>, <<"Alice", "Bob">>}

\* the profile responses of a crawl: a payload that parses and one that is
\* not JSON
GoodPayload ==
    [kind |-> "ok", Items |-> <<[item_key |-> "pistol"]>>,
     PostOfficeItems |-> <<>>, personal_vehicles |-> <<[ModelHash |-> 1]>>]
CrawlPayloads == {GoodPayload, [kind |-> "garbage"]}

Task(player) == [player |-> player, st |-> "new"]

RECURSIVE put_all(_, _)
put_all(q, players) ==
    IF players = <<>> THEN q
    ELSE put_all(Append(q, Head(players)), Tail(players))

\* load_players: every roster player is queued, its retry count set to 0
load_players_queue(q, players) == put_all(q, players)
load_players_counts(counts, players) ==
    [p \in DOMAIN counts \cup {players[i] : i \in DOMAIN players} |->
        IF \E i \in DOMAIN players : players[i] = p THEN 0 ELSE counts[p]]

\* how the request for the item catalog ends
CatalogResponses == {"ok", "failed"}
\* ItemsManager.get_items: the catalog, or {} when the request or its
\* decoding raised (the exception is logged, not raised)
get_items(response) == IF response = "ok" THEN ItemsDict ELSE EmptyDict

(* scrape_all_players up to the gather: the catalog is refreshed, the      *)
(* processed set cleared, the roster loaded behind whatever the queue      *)
(* still holds, and the queue drained into one task per entry.             *)
ScrapeAllPlayers ==
    /\ pc \in {"idle", "returned", "raised"}
    /\ \E players \in Rosters :
          LET q == load_players_queue(players_queue, players)
          IN /\ Len(q) <= MaxTasks
             /\ roster' = players
             /\ retry_counts' = load_players_counts(retry_counts, players)
             /\ tasks' = [i \in 1..Len(q) |-> Task(q[i])]
    /\ players_queue' = <<>>
    /\ processed' = {}
    /\ \E response \in CatalogResponses : items' = get_items(response)
    /\ pc' = "gather"
    /\ failed' = {}
    /\ saves' = 0
    /\ before' = cache
    /\ UNCHANGED <<disk, cache, lookup_cache, now, view, last_call, browser_vars>>

\* _process_player up to the request: a player already processed returns
\* True at once, any other issues its profile request
process_player_start(t, done) ==
    IF t.st # "new" THEN t
    ELSE IF t.player \in done THEN [t EXCEPT !.st = "skipped"]
    ELSE [t EXCEPT !.st = "fetching"]

\* the coroutines just gathered run up to their first suspension
TasksTakeFirstStep ==
    /\ \E i \in DOMAIN tasks : tasks[i].st = "new"
    /\ tasks' = [i \in DOMAIN tasks |-> process_player_start(tasks[i], processed)]
    /\ UNCHANGED <<disk, cache_vars, players_queue, retry_counts, processed, pc,
                   roster, failed, saves, before, browser_vars>>

StartTasks == pc = "gather" /\ TasksTakeFirstStep

\* _handle_retry: <<retry_counts, players_queue>> after it
handle_retry(counts, q, player) ==
    IF counts[player] < max_retries
    THEN <<[counts EXCEPT ![player] = @ + 1], Append(q, player)>>
    ELSE <<counts, q>>

\* status 200: the body is handed to update_player (which logs and swallows
\* whatever goes wrong) and the player is marked processed
TaskGetsOk ==
    \E i \in DOMAIN tasks, body \in CrawlPayloads :
        /\ tasks[i].st = "fetching"
        /\ LET r == update_player(cache, lookup_cache, tasks[i].player, body,
                                  VehicleDict, now)
           IN cache' = r[1] /\ lookup_cache' = r[2]
        /\ processed' = processed \cup {tasks[i].player}
        /\ tasks' = [tasks EXCEPT ![i].st =
                        IF body.kind = "ok" THEN "merged" ELSE "malformed"]
        /\ UNCHANGED <<disk, items, now, view, last_call, players_queue, retry_counts,
                       pc, roster, failed, saves, before, browser_vars>>

ResponseOk == pc = "gather" /\ TaskGetsOk

\* another status, or an exception inside the request: _handle_retry
TaskGetsFailure ==
    \E i \in DOMAIN tasks, kind \in {"status", "error"} :
        /\ tasks[i].st = "fetching"
        /\ LET r == handle_retry(retry_counts, players_queue, tasks[i].player)
           IN retry_counts' = r[1] /\ players_queue' = r[2]
        /\ tasks' = [tasks EXCEPT ![i].st = "failed"]
        /\ UNCHANGED <<disk, cache_vars, processed, pc, roster, failed, saves, before,
                       browser_vars>>

ResponseFailed == pc = "gather" /\ TaskGetsFailure

\* total of scrape_all_players: the queue's size as the crawl started, one
\* task being gathered per entry
Total == Len(tasks)

\* the profile requests issued for a player in this crawl
Fetches(p) ==
    Cardinality({i \in DOMAIN tasks :
                    tasks[i].player = p /\ tasks[i].st \notin {"new", "skipped"}})

\* _log_results: the players it names as failed
log_results_failed(counts) == {p \in DOMAIN counts : counts[p] >= max_retries}

(* the gather is over: _log_results divides by total (ZeroDivisionError    *)
(* when the crawl started on an empty queue, re-raised to the caller),     *)
(* then the cache is saved.                                                *)
GatherDone ==
    /\ pc = "gather"
    /\ \A i \in DOMAIN tasks : tasks[i].st \notin {"new", "fetching"}
    /\ IF Total = 0
       THEN /\ pc' = "raised"
            /\ UNCHANGED <<failed, saves, disk>>
       ELSE /\ pc' = "returned"
            /\ failed' = log_results_failed(retry_counts)
            /\ saves' = saves + 1
            /\ disk' = save_cache(cache)
    /\ UNCHANGED <<cache_vars, players_queue, retry_counts, processed, tasks,
                   roster, before, browser_vars>>

AsyncInit ==
    /\ \E db_file \in {[state |-> "missing"],
                       [state |-> "valid",
                        data |-> json_dump("Bob" :> RecordOf(GoodPayload, 0))]} :
          /\ cache = load_cache(db_file)[1]
          /\ lookup_cache = load_cache(db_file)[2]
    /\ items = ItemsDict
    /\ now = 0
    /\ view = NoView
    /\ last_call = NoCall
    /\ CrawlIdle

AsyncNext ==
    ScrapeAllPlayers \/ StartTasks \/ ResponseOk \/ ResponseFailed \/ GatherDone

SpecAsync == AsyncInit /\ [][AsyncNext]_vars

----------------------------------------------------------------------------
(* The bot's scrape command issued twice (src/bot/commands_body.py): each  *)
(* command is a task of the event loop that awaits scrape_all_players of   *)
(* the one scraper of the bot.  A command runs without suspending up to    *)
(* its gather, so the second one starts while the first awaits its         *)
(* fetches (its coroutines having sent their requests), or after it.  Here *)
(* pc maps a command to where it stands and a coroutine carries the        *)
(* command that created it.                                                *)

Commands == {1, 2}

CommandTask(c, player) == [player |-> player, st |-> "new", crawl |-> c]
TasksOfCommand(c) == {i \in DOMAIN tasks : tasks[i].crawl = c}

\* scrape_command: scrape_all_players of the shared scraper, up to its gather
ScrapeCommand(c) ==
    /\ pc[c] = "idle"
    /\ \A b \in Commands : b < c => pc[b] # "idle"
    /\ \A i \in DOMAIN tasks : tasks[i].st # "new"
    /\ \E players \in Rosters :
          LET q == load_players_queue(players_queue, players)
          IN /\ Len(tasks) + Len(q) <= MaxTasks
             /\ roster' = players
             /\ retry_counts' = load_players_counts(retry_counts, players)
             /\ tasks' = tasks \o [i \in 1..Len(q) |-> CommandTask(c, q[i])]
    /\ players_queue' = <<>>
    /\ processed' = {}
    /\ \E response \in CatalogResponses : items' = get_items(response)
    /\ pc' = [pc EXCEPT ![c] = "gather"]
    /\ UNCHANGED <<disk, cache, lookup_cache, now, view, last_call, failed, saves,
                   before, browser_vars>>

\* the gather of a command is over: _log_results on its total, save_cache
CommandDone(c) ==
    /\ pc[c] = "gather"
    /\ \A i \in TasksOfCommand(c) : tasks[i].st \notin {"new", "fetching"}
    /\ IF TasksOfCommand(c) = {}
       THEN /\ pc' = [pc EXCEPT ![c] = "raised"]
            /\ UNCHANGED <<failed, saves, disk>>
       ELSE /\ pc' = [pc EXCEPT ![c] = "returned"]
            /\ failed' = log_results_failed(retry_counts)
            /\ saves' = saves + 1
            /\ disk' = save_cache(cache)
    /\ UNCHANGED <<cache_vars, players_queue, retry_counts, processed, tasks,
                   roster, before, browser_vars>>

CommandsInit ==
    /\ \E db_file \in {[state |-> "missing"],
                       [state |-> "valid",
                        data |-> json_dump("Bob" :> RecordOf(GoodPayload, 0))]} :
          /\ cache = load_cache(db_file)[1]
          /\ lookup_cache = load_cache(db_file)[2]
          /\ before = load_cache(db_file)[1]
    /\ items = ItemsDict
    /\ now = 0
    /\ view = NoView
    /\ last_call = NoCall
    /\ pc = [c \in Commands |-> "idle"]
    /\ players_queue = <<>>
    /\ retry_counts = EmptyDict
    /\ processed = {}
    /\ tasks = <<>>
    /\ roster = <<>>
    /\ failed = {}
    /\ saves = 0
    /\ retry_queue = <<>>
    /\ player_attempts = EmptyDict
    /\ active_users = <<>>
    /\ requests = <<>>
    /\ windows = {}
    /\ opens = EmptyDict
    /\ disk = NotSeen

CommandsNext ==
    \/ \E c \in Commands : ScrapeCommand(c)
    \/ TasksTakeFirstStep \/ TaskGetsOk \/ TaskGetsFailure
    \/ \E c \in Commands : CommandDone(c)

SpecCommands == CommandsInit /\ [][CommandsNext]_vars

----------------------------------------------------------------------------
(* The browser coordinator (src/player_scraper.py) on the plain cache      *)
(* (src/players_cache.py).  One batch: tabs are opened for the players     *)
(* taken from a queue, the captured requests are polled for each player's  *)
(* response until none is left or 15 seconds have passed, the tabs left    *)
(* are closed and their players re-queued.                                 *)

BrowserPlayers == {"Al", "Alice", "Bob"}
BrowserRosters == {<<>>, <<"Alice", "Bob">>, <<"Al", "Alice", "Bob">>}

NameChars(name) ==
    CASE name = "Al" -> <<"A", "l">>
      [] name = "Alice" -> <<"A", "l", "i", "c", "e">>
      [] name = "Bob" -> <<"B", "o", "b">>

IsPrefix(a, b) == Len(a) <= Len(b) /\ SubSeq(b, 1, Len(a)) = a

\* f'/user/profile/{player_name}' in request.url, the url being the profile
\* url of `requested`: the path occurs once, at the end of the url
UrlContains(requested, player_name) ==
    IsPrefix(NameChars(player_name), NameChars(requested))

\* a response body: brotli data holding a payload, or bytes that
\* brotli.decompress rejects
NoResponse == [got |-> FALSE]
Bodies == [got : {TRUE}, brotli : {TRUE}, text : CrawlPayloads]
              \cup {[got |-> TRUE, brotli |-> FALSE]}

\* update_player of the plain cache: the record is stored when the payload
\* parses, anything else is logged and changes nothing
plain_update_player(c, player_name, inventory_data, vehicle_dict, ts) ==
    IF JsonDecodes(inventory_data) /\ ~ParseRaises(inventory_data)
    THEN Put(c, player_name,
             PlayerData(parse_inventory(UserData(inventory_data)),
                        parse_vehicles(UserData(inventory_data).personal_vehicles,
                                       vehicle_dict),
                        strftime(ts)))
    ELSE c

\* _load_cache of the plain cache: the records of a readable file, else {}
plain_load_cache(db_file) ==
    IF db_file.state = "valid"
    THEN [name \in DOMAIN db_file.data |-> from_dict(db_file.data[name])]
    ELSE EmptyDict

\* save_cache of the plain cache: the same dump of the primary store
plain_save_cache(c) == [state |-> "valid", data |-> json_dump(c)]

\* the database files the plain cache is constructed on
PlainDbFiles ==
    {[state |-> "missing"],
     [state |-> "valid",
      data |-> json_dump("Bob" :> PlayerData(EmptyDict, <<>>, strftime(0)))]}

\* (mutant) one retry too many: attempts <= max_retries
add_to_retry_queue_le(attempts_of, rq, player_name) ==
    LET attempts == (IF player_name \in DOMAIN attempts_of
                     THEN attempts_of[player_name] ELSE 0) + 1
    IN <<Put(attempts_of, player_name, attempts),
         IF attempts <= max_retries THEN Append(rq, player_name) ELSE rq>>

\* _add_to_retry_queue: <<player_attempts, retry_queue>> after it
add_to_retry_queue(attempts_of, rq, player_name) ==
    LET attempts == (IF player_name \in DOMAIN attempts_of
                     THEN attempts_of[player_name] ELSE 0) + 1
    IN <<Put(attempts_of, player_name, attempts),
         IF attempts < max_retries THEN Append(rq, player_name) ELSE rq>>

\* _get_user_profile_response: the body of the first captured request that
\* has a response and whose url contains the player's profile path
get_user_profile_response(reqs, player_name) ==
    LET hits == {i \in DOMAIN reqs :
                    /\ reqs[i].response.got
                    /\ UrlContains(reqs[i].player, player_name)}
    IN IF hits = {} THEN NoResponse
       ELSE reqs[CHOOSE i \in hits : \A j \in hits : i <= j].response

Min(a, b) == IF a <= b THEN a ELSE b

(* the tabs of a batch are opened in queue order: st is                    *)
(* <<player_attempts, retry_queue, active_users>>; a window.open that      *)
(* raises sends its player to _add_to_retry_queue                          *)
RECURSIVE open_pages(_, _, _)
open_pages(batch, opened, st) ==
    IF batch = <<>> THEN st
    ELSE LET player_name == Head(batch)
             r == add_to_retry_queue(st[1], st[2], player_name)
         IN open_pages(Tail(batch), opened,
                       IF player_name \in opened
                       THEN <<st[1], st[2], Append(st[3], player_name)>>
                       ELSE <<r[1], r[2], st[3]>>)

BothQueuesEmpty == players_queue = <<>> /\ retry_queue = <<>>

\* (mutant) the work queue is served first, the retry queue once it is empty
work_queue_first(rq, pq) == pq = <<>>

\* (mutant) the retry queue is served whatever it holds
retry_queue_only(rq, pq) == TRUE

\* queue_to_use is the retry queue: `not self.retry_queue.empty()`
use_retry_queue(rq, pq) == rq # <<>>

OpenBatch ==
    /\ pc = "loop"
    /\ ~BothQueuesEmpty
    /\ LET from_retry == use_retry_queue(retry_queue, players_queue)
           queue_to_use == IF from_retry THEN retry_queue ELSE players_queue
           current_batch_size == Min(BatchSize, Len(queue_to_use))
           batch == SubSeq(queue_to_use, 1, current_batch_size)
           rest == SubSeq(queue_to_use, current_batch_size + 1, Len(queue_to_use))
       IN \E opened \in SUBSET {batch[i] : i \in DOMAIN batch} :
             LET r == open_pages(batch, opened, <<player_attempts,
                                   IF from_retry THEN rest ELSE retry_queue, <<>>>>)
             IN /\ player_attempts' = r[1]
                /\ retry_queue' = r[2]
                /\ active_users' = r[3]
                /\ players_queue' = IF from_retry THEN players_queue ELSE rest
                /\ requests' = requests \o
                       [i \in DOMAIN r[3] |-> [player |-> r[3][i], response |-> NoResponse]]
                /\ windows' = windows \cup opened
                /\ opens' = [p \in DOMAIN opens |->
                               opens[p] + Cardinality({i \in DOMAIN batch : batch[i] = p})]
    /\ pc' = "waiting"
    /\ UNCHANGED <<disk, cache_vars, roster, failed, saves, before, async_vars>>

\* the server answers the profile request of an open tab
ResponseArrives ==
    \E i \in DOMAIN requests, body \in Bodies :
        /\ pc = "waiting"
        /\ ~requests[i].response.got
        /\ requests' = [requests EXCEPT ![i].response = body]
        /\ UNCHANGED <<disk, cache_vars, players_queue, pc, roster, failed, saves, before,
                       async_vars, retry_queue, player_attempts, active_users,
                       windows, opens>>

Remove(seq, x) == SelectSeq(seq, LAMBDA y : y # x)

(* the polling loop finds a response for an active user: _process_player   *)
(* decompresses it, hands the text to update_player and closes the tab;    *)
(* the user leaves active_users whatever _process_player returned          *)
ProcessResponse ==
    \E i \in DOMAIN active_users, close_ok \in BOOLEAN :
        LET player_name == active_users[i]
            body == get_user_profile_response(requests, player_name)
        IN /\ pc = "waiting"
           /\ body.got
           /\ IF body.brotli
              THEN /\ cache' = plain_update_player(cache, player_name, body.text,
                                                   VehicleDict, now)
                   /\ windows' = IF close_ok THEN windows \ {player_name} ELSE windows
                   /\ processed' = IF close_ok THEN processed \cup {player_name}
                                   ELSE processed
              ELSE UNCHANGED <<cache, windows, processed>>
           /\ active_users' = Remove(active_users, player_name)
           /\ UNCHANGED <<disk, lookup_cache, items, now, view, last_call, players_queue,
                          pc, roster, failed, saves, before, retry_counts, tasks,
                          retry_queue, player_attempts, requests, opens>>

(* cleanup of the users left: the tab is closed and the player sent to     *)
(* _add_to_retry_queue; when closing raises the player is only logged.     *)
(* st is <<player_attempts, retry_queue>>                                  *)
RECURSIVE cleanup(_, _, _)
cleanup(left, closed, st) ==
    IF left = <<>> THEN st
    ELSE cleanup(Tail(left), closed,
                 IF Head(left) \in closed
                 THEN add_to_retry_queue(st[1], st[2], Head(left))
                 ELSE st)

\* (mutant) the cache is saved at the end of every batch
BatchCompletedSaving ==
    /\ pc = "waiting"
    /\ active_users = <<>>
    /\ requests' = <<>>
    /\ pc' = "loop"
    /\ saves' = saves + 1
    /\ UNCHANGED <<disk, cache_vars, players_queue, roster, failed, before,
                   async_vars, retry_queue, player_attempts, active_users,
                   windows, opens>>

\* every user of the batch was handled: captured requests are cleared
BatchCompleted ==
    /\ pc = "waiting"
    /\ active_users = <<>>
    /\ requests' = <<>>
    /\ pc' = "loop"
    /\ UNCHANGED <<disk, cache_vars, players_queue, roster, failed, saves, before,
                   async_vars, retry_queue, player_attempts, active_users,
                   windows, opens>>

\* (mutant) a user left at the timeout ends the crawl with an error
BatchTimedOutRaising ==
    /\ pc = "waiting"
    /\ active_users # <<>>
    /\ active_users' = <<>>
    /\ pc' = "raised"
    /\ UNCHANGED <<disk, cache_vars, players_queue, roster, failed, saves, before,
                   async_vars, retry_queue, player_attempts, requests, windows,
                   opens>>

\* the 15 seconds of the batch are over with users left
BatchTimedOut ==
    /\ pc = "waiting"
    /\ active_users # <<>>
    /\ \E closed \in SUBSET {active_users[i] : i \in DOMAIN active_users} :
          LET r == cleanup(active_users, closed, <<player_attempts, retry_queue>>)
          IN /\ player_attempts' = r[1]
             /\ retry_queue' = r[2]
             /\ windows' = windows \ closed
    /\ active_users' = <<>>
    /\ requests' = <<>>
    /\ pc' = "loop"
    /\ UNCHANGED <<disk, cache_vars, players_queue, roster, failed, saves, before,
                   async_vars, opens>>

\* scrape_all_players after its loop: the failed players, then save_cache
failed_players(attempts_of) ==
    {name \in DOMAIN attempts_of : attempts_of[name] >= max_retries}

ScrapeFinished ==
    /\ pc = "loop"
    /\ BothQueuesEmpty
    /\ failed' = failed_players(player_attempts)
    /\ saves' = saves + 1
    /\ disk' = plain_save_cache(cache)
    /\ pc' = "returned"
    /\ UNCHANGED <<cache_vars, players_queue, roster, before, async_vars,
                   browser_vars>>

\* after create_scraper: initialize_data has queued the roster
BrowserInit ==
    /\ \E db_file \in PlainDbFiles :
          /\ cache = plain_load_cache(db_file)
          /\ before = plain_load_cache(db_file)
    /\ lookup_cache = EmptyDict
    /\ items = EmptyDict
    /\ now = 0
    /\ view = NoView
    /\ last_call = NoCall
    /\ \E players \in BrowserRosters :
          /\ roster = players
          /\ players_queue = players
    /\ retry_counts = EmptyDict
    /\ processed = {}
    /\ tasks = <<>>
    /\ pc = "loop"
    /\ failed = {}
    /\ saves = 0
    /\ retry_queue = <<>>
    /\ player_attempts = EmptyDict
    /\ active_users = <<>>
    /\ requests = <<>>
    /\ windows = {}
    /\ opens = [p \in BrowserPlayers |-> 0]
    /\ disk = NotSeen

BrowserNext ==
    \/ OpenBatch \/ ResponseArrives \/ ProcessResponse
    \/ BatchCompleted \/ BatchTimedOut \/ ScrapeFinished

SpecBrowser == BrowserInit /\ [][BrowserNext]_vars

\* the coordinator is a sequential program: it keeps taking its next step
SpecBrowserFair == SpecBrowser /\ WF_vars(BrowserNext)

----------------------------------------------------------------------------
(* The indexed cache and its database file: upserts, save_cache, and the   *)
(* process started again (a new PlayerCache on the file as it is found).   *)

\* a profile with the same item in the inventory and in the mailbox and two
\* vehicles, the first of them unknown to the catalog
RichPayload ==
    [kind |-> "ok", Items |-> <<[item_key |-> "pistol"]>>,
     PostOfficeItems |-> <<[item_key |-> "pistol"]>>,
     personal_vehicles |-> <<[ModelHash |-> UnknownHash], [ModelHash |-> 1]>>]
\* a profile whose inventory holds the pistol twice, the entries carrying the
\* quantities 2 and 1, and no vehicle
QuantityPayload ==
    [kind |-> "ok",
     Items |-> <<[item_key |-> "pistol", quantity |-> 2],
                 [item_key |-> "pistol", quantity |-> 1]>>,
     PostOfficeItems |-> <<>>, personal_vehicles |-> <<>>]
\* a profile without vehicle whose inventory holds an item with the key
\* 'vehicle:Sultan' (item keys are whatever text the payload carries)
CollidingPayload ==
    [kind |-> "ok", Items |-> <<[item_key |-> VehicleKey("Sultan")]>>,
     PostOfficeItems |-> <<>>, personal_vehicles |-> <<>>]
StoragePayloads ==
    {GoodPayload, RichPayload, QuantityPayload, CollidingPayload, [kind |-> "baduser"]}

\* the files a new process may find where `file` was: the file itself, no
\* file, a file that is not JSON, the file with an entry damaged
FilesFound(file) ==
    (IF file.state = "unseen" THEN {} ELSE {file})
    \cup {[state |-> "missing"], [state |-> "corrupt"]}
    \cup (IF file.state = "valid"
          THEN {[state |-> "malformed", data |-> file.data]} ELSE {})

StorageUpdate ==
    \E player_name \in Players, inventory_data \in StoragePayloads :
        UpdatePlayerCall(player_name, inventory_data)

SaveCache ==
    /\ disk' = save_cache(cache)
    /\ last_call' = NoCall
    /\ UNCHANGED <<cache, lookup_cache, items, now, view, crawl_vars>>

\* PlayerCache(db_file) in a new process, the catalog installed again
RestartOn ==
    \E db_file \in FilesFound(disk) :
        /\ cache' = load_cache(db_file)[1]
        /\ lookup_cache' = load_cache(db_file)[2]
        /\ disk' = db_file
        /\ view' = NoView
        /\ last_call' = NoCall
        /\ UNCHANGED <<items, now, crawl_vars>>

StorageInit ==
    /\ \E db_file \in {[state |-> "missing"],
                       [state |-> "valid",
                        data |-> json_dump("Bob" :> RecordOf(GoodPayload, 0))]} :
          /\ cache = load_cache(db_file)[1]
          /\ lookup_cache = load_cache(db_file)[2]
    /\ items = ItemsDict
    /\ now = 0
    /\ view = NoView
    /\ last_call = NoCall
    /\ CrawlIdle

StorageNext == StorageUpdate \/ SaveCache \/ RestartOn
SpecStorage == StorageInit /\ [][StorageNext]_vars

----------------------------------------------------------------------------
(* Concurrent upserts: the update_player coroutines of distinct players,   *)
(* as the tasks of one gather create them.  update_player holds no await,  *)
(* so a coroutine that reached it runs to its end before another one is    *)
(* scheduled; which coroutine reaches it first is up to the responses.     *)

UpsertPayloads == {GoodPayload, RichPayload, NullUserPayload, [kind |-> "nouser"]}

\* the coroutine that will call update_player(player, data, vehicles)
Upsert(player, data) == [player |-> player, st |-> "new", data |-> data]

\* the upserts in flight at once: at most one per player
UpsertBatches ==
    {b \in SeqsUpTo({Upsert(p, d) : p \in Players, d \in UpsertPayloads},
                    Cardinality(Players)) :
        \A i, j \in DOMAIN b : i # j => b[i].player # b[j].player}

\* the database files the cache of the bot is constructed on
UpsertDbFiles ==
    {[state |-> "missing"],
     [state |-> "valid", data |-> json_dump("Bob" :> RecordOf(GoodPayload, 0))],
     [state |-> "valid",
      data |-> json_dump(("Alice" :> RecordOf(RichPayload, 0))
                         @@ ("Bob" :> RecordOf(GoodPayload, 0)))]}

UpsertsInit ==
    /\ \E db_file \in UpsertDbFiles :
          /\ cache = load_cache(db_file)[1]
          /\ lookup_cache = load_cache(db_file)[2]
          /\ before = load_cache(db_file)[1]
    /\ items = ItemsDict
    /\ now = 0
    /\ view = NoView
    /\ last_call = NoCall
    /\ \E b \in UpsertBatches : tasks = b
    /\ pc = "gather"
    /\ players_queue = <<>>
    /\ retry_counts = EmptyDict
    /\ processed = {}
    /\ roster = <<>>
    /\ failed = {}
    /\ saves = 0
    /\ retry_queue = <<>>
    /\ player_attempts = EmptyDict
    /\ active_users = <<>>
    /\ requests = <<>>
    /\ windows = {}
    /\ opens = EmptyDict
    /\ disk = NotSeen

\* one of the coroutines is resumed with its response and runs update_player
UpsertRuns ==
    \E i \in DOMAIN tasks :
        /\ tasks[i].st = "new"
        /\ LET r == update_player(cache, lookup_cache, tasks[i].player, tasks[i].data,
                                  VehicleDict, now)
           IN cache' = r[1] /\ lookup_cache' = r[2]
        /\ last_call' = CallOf(tasks[i].player, tasks[i].data, now)
        /\ tasks' = [tasks EXCEPT ![i].st = "done"]
        /\ UNCHANGED <<items, now, view, disk, players_queue, pc, roster, failed,
                       saves, before, retry_counts, processed, browser_vars>>

UpsertsNext == UpsertRuns \/ Tick
SpecUpserts == UpsertsInit /\ [][UpsertsNext]_vars

----------------------------------------------------------------------------
(* The parser on its own: one update_player call with a payload whose      *)
(* inventory and mailbox lists hold entries of two item keys and entries   *)
(* without a key, in every order.                                          *)

ParserKeys == {"pistol", "knife"}
ParserPayloads ==
    [kind : {"ok"},
     Items : SeqsUpTo([item_key : ParserKeys \cup {NoKey}], MaxEntries),
     PostOfficeItems : SeqsUpTo([item_key : ParserKeys \cup {NoKey}], MaxEntries),
     personal_vehicles : {<<>>}]

ParserInit ==
    /\ cache = EmptyDict
    /\ lookup_cache = EmptyDict
    /\ before = EmptyDict
    /\ items = ItemsDict
    /\ now = 0
    /\ view = NoView
    /\ last_call = NoCall
    /\ \E p \in Players, d \in ParserPayloads : tasks = <<Upsert(p, d)>>
    /\ pc = "gather"
    /\ players_queue = <<>>
    /\ retry_counts = EmptyDict
    /\ processed = {}
    /\ roster = <<>>
    /\ failed = {}
    /\ saves = 0
    /\ retry_queue = <<>>
    /\ player_attempts = EmptyDict
    /\ active_users = <<>>
    /\ requests = <<>>
    /\ windows = {}
    /\ opens = EmptyDict
    /\ disk = NotSeen

SpecParser == ParserInit /\ [][UpsertRuns]_vars

----------------------------------------------------------------------------
(* At-least-once fetch: the same payload is handed to update_player twice  *)
(* for the same player, some time apart.                                   *)

RepeatInit ==
    /\ \E db_file \in UpsertDbFiles :
          /\ cache = load_cache(db_file)[1]
          /\ lookup_cache = load_cache(db_file)[2]
          /\ before = load_cache(db_file)[1]
    /\ items = ItemsDict
    /\ now = 0
    /\ view = NoView
    /\ last_call = NoCall
    /\ \E p \in Players, d \in Payloads \cup {RichPayload} : tasks = <<Upsert(p, d), Upsert(p, d)>>
    /\ pc = "gather"
    /\ players_queue = <<>>
    /\ retry_counts = EmptyDict
    /\ processed = {}
    /\ roster = <<>>
    /\ failed = {}
    /\ saves = 0
    /\ retry_queue = <<>>
    /\ player_attempts = EmptyDict
    /\ active_users = <<>>
    /\ requests = <<>>
    /\ windows = {}
    /\ opens = EmptyDict
    /\ disk = NotSeen

SpecRepeat == RepeatInit /\ [][UpsertsNext]_vars

----------------------------------------------------------------------------
(* Initialization of the browser coordinator (create_scraper): the work    *)
(* queue is a queue.Queue(maxsize=queue_size) and initialize_data puts the *)
(* roster on it with blocking puts, nothing taking from the queue before   *)
(* initialize_data has returned.  A roster is the list of the names of     *)
(* online_db.json, here the numbers of its lines.                          *)

queue_size == 2000

\* the rosters get_players may return: none, one player, as many as the
\* queue takes, one more
InitRosters == {[i \in 1..n |-> i] : n \in {0, 1, queue_size, queue_size + 1}}

\* PlayerScraper.__init__: empty queues, no list of players yet
CreatedInit ==
    /\ cache = EmptyDict
    /\ lookup_cache = EmptyDict
    /\ before = EmptyDict
    /\ items = EmptyDict
    /\ now = 0
    /\ view = NoView
    /\ last_call = NoCall
    /\ tasks = <<>>
    /\ pc = "created"
    /\ players_queue = <<>>
    /\ retry_counts = EmptyDict
    /\ processed = {}
    /\ roster = <<>>
    /\ failed = {}
    /\ saves = 0
    /\ retry_queue = <<>>
    /\ player_attempts = EmptyDict
    /\ active_users = <<>>
    /\ requests = <<>>
    /\ windows = {}
    /\ opens = EmptyDict
    /\ disk = NotSeen

\* initialize_data up to its loop: the inventory list, the roster and the
\* vehicles are requested; a request that raises ends it with the error
FetchInitialData ==
    /\ pc = "created"
    /\ \/ /\ pc' = "raised"
          /\ UNCHANGED roster
       \/ /\ pc' = "filling"
          /\ \E players \in InitRosters : roster' = players
    /\ UNCHANGED <<disk, cache_vars, players_queue, failed, saves, before,
                   async_vars, browser_vars>>

\* one turn of the loop: players_queue.put(player), once put can return
PutPlayer ==
    /\ pc = "filling"
    /\ Len(players_queue) < Len(roster)
    /\ Len(players_queue) < queue_size    \* Queue.put returns: not full
    /\ players_queue' = Append(players_queue, roster[Len(players_queue) + 1])
    /\ UNCHANGED <<disk, cache_vars, pc, roster, failed, saves, before,
                   async_vars, browser_vars>>

\* the loop is through: initialize_data returns and the crawl can start
InitializeDataReturns ==
    /\ pc = "filling"
    /\ Len(players_queue) = Len(roster)
    /\ pc' = "loop"
    /\ UNCHANGED <<disk, cache_vars, players_queue, roster, failed, saves, before,
                   async_vars, browser_vars>>

InitializeNext == FetchInitialData \/ PutPlayer \/ InitializeDataReturns
\* initialize_data is a sequential program: it takes its next step when it can
SpecInitializeFair ==
    CreatedInit /\ [][InitializeNext]_vars /\ WF_vars(InitializeNext)

----------------------------------------------------------------------------
(* Properties of the cache.                                                *)

VehicleNames == {"Sultan", "Unknown Vehicle"}
IndexKeys == ItemKeys \cup {VehicleKey(n) : n \in VehicleNames}

InIndex(l, K, P) == K \in DOMAIN l /\ P \in DOMAIN l[K]
RecordContains(c, P, K) ==
    P \in DOMAIN c /\ (K \in DOMAIN c[P].items \/ K \in VehicleKeys(c[P]))
\* the quantity the index should hold: the item's count, or 1 for a vehicle
QuantityOf(c, P, K) ==
    IF K \in DOMAIN c[P].items THEN c[P].items[K].count ELSE 1

(* C1: after Load and after any sequence of update_player calls, for every *)
(* player P and index key K, lookup_cache[K][P] exists iff P's current     *)
(* record contains K, and then holds the item's count (1 for a vehicle).   *)
C1_IndexMatchesStore ==
    \A P \in Players, K \in IndexKeys :
        /\ InIndex(lookup_cache, K, P) <=> RecordContains(cache, P, K)
        /\ InIndex(lookup_cache, K, P) => lookup_cache[K][P] = QuantityOf(cache, P, K)

\* the index entry of a key as whole upserts leave it: derived from the
\* records of the primary store
DerivedEntry(c, K) ==
    [P \in {Q \in DOMAIN c : RecordContains(c, Q, K)} |-> QuantityOf(c, P, K)]

(* C2: the mapping a caller of find_users_with_item holds is, at every     *)
(* instant, the index entry as whole upserts leave it: never one with a    *)
(* player's old contribution removed and the new one not inserted.         *)
C2_ReaderSeesWholeUpserts ==
    (view.held /\ view.alias) =>
        ViewMapping(view, lookup_cache) = DerivedEntry(cache, view.key)

(* C6: stale reverse-lookup entries never survive an upsert: whenever P is *)
(* in the index entry of an item or vehicle key, P's current record        *)
(* contains that key, so a player re-upserted without item X is not in     *)
(* the result of find_users_with_item(X) (same for vehicles).              *)
C6_NoStaleEntries ==
    /\ \A P \in Players, K \in IndexKeys :
          InIndex(lookup_cache, K, P) => RecordContains(cache, P, K)
    /\ \A P \in Players, item_name \in DOMAIN items :
          LET v == find_users_with_item(items, lookup_cache, item_name)
          IN P \in DOMAIN ViewMapping(v, lookup_cache)
                 => RecordContains(cache, P, items[item_name])
    /\ \A P \in Players, n \in VehicleNames :
          P \in find_users_with_vehicle(lookup_cache, n)
              => RecordContains(cache, P, VehicleKey(n))

\* Alice was upserted again without the pistol and the vehicle she had (the
\* index keys exist, only she can have created them, and she is in neither)
C6_Witness ==
    /\ DOMAIN cache = {"Alice"}
    /\ cache["Alice"].items = EmptyDict /\ cache["Alice"].vehicles = <<>>
    /\ "pistol" \in DOMAIN lookup_cache /\ lookup_cache["pistol"] = EmptyDict
    /\ VehicleKey("Sultan") \in DOMAIN lookup_cache
    /\ lookup_cache[VehicleKey("Sultan")] = EmptyDict

(* C7: update_player(name, payload) with a payload that parses, followed   *)
(* immediately by get_player(name), returns the record built from that     *)
(* payload (stamped with the time of the call), not an earlier record.     *)
C7_RoundTrip ==
    last_call.made =>
        get_player(cache, last_call.player_name) = last_call.record

\* Alice's record was replaced after the clock advanced, by a payload with
\* two pistols and an unknown vehicle, while Bob holds a record as well
C7_Witness ==
    /\ DOMAIN cache = {"Alice", "Bob"}
    /\ cache["Alice"].last_updated = strftime(MaxClock)
    /\ cache["Bob"].last_updated = strftime(0)
    /\ cache["Alice"].items = ("pistol" :> PlayerItem("pistol", 2))
    /\ cache["Alice"].vehicles = <<PlayerVehicle(UnknownHash, "Unknown Vehicle")>>
    /\ last_call.made /\ last_call.player_name = "Alice"

----------------------------------------------------------------------------
(* Properties of a crawl.                                                  *)

RosterSet == {roster[i] : i \in DOMAIN roster}
TasksOf(p) == {i \in DOMAIN tasks : tasks[i].player = p}

(* C3: when scrape_all_players returns, the queue is empty and every       *)
(* roster player is in exactly one terminal state: processed, or named in  *)
(* the reported failed list.                                               *)
C3_EveryPlayerAccounted ==
    pc = "returned" =>
        /\ players_queue = <<>>
        /\ \A p \in RosterSet : (p \in processed) # (p \in failed)

(* C4: within one crawl no player is fetched more than max_retries times.  *)
C4_AtMostMaxRetriesFetches ==
    \A p \in Players : Fetches(p) <= max_retries

RECURSIVE SumOver(_, _)
SumOver(f, S) ==
    IF S = {} THEN 0
    ELSE LET x == CHOOSE y \in S : TRUE IN f[x] + SumOver(f, S \ {x})

\* profile pages requested so far by the browser coordinator
TotalOpens == SumOver(opens, DOMAIN opens)

(* C5: the browser coordinator's scrape_all_players terminates for every   *)
(* roster and every pattern of failed opens, missing responses and         *)
(* timeouts: it reaches the point where both queues are empty and returns, *)
(* having requested at most max_retries * len(roster) profile pages.       *)
C5_CrawlTerminatesWithinBound ==
    /\ <>(pc = "returned" /\ BothQueuesEmpty)
    /\ [](TotalOpens <= max_retries * Len(roster))

\* the crawl of three players returned after every one of them was opened
\* max_retries times and given up
C5_Witness ==
    /\ pc = "returned" /\ BothQueuesEmpty
    /\ Len(roster) = 3
    /\ TotalOpens = max_retries * Len(roster)
    /\ failed = RosterSet

(* C11: in a crawl of the browser coordinator save_cache is called exactly *)
(* once, when the loop has ended: never while a batch is being awaited,    *)
(* never with a player of a batch unresolved or a queue non-empty.         *)
C11_SavedOnceAfterTheLoop ==
    /\ saves = (IF pc = "returned" THEN 1 ELSE 0)
    /\ saves > 0 => (active_users = <<>> /\ requests = <<>> /\ BothQueuesEmpty)

\* a crawl of three players that took more than two batches has returned
C11_Witness ==
    /\ pc = "returned" /\ saves = 1
    /\ Len(roster) = 3 /\ TotalOpens > 2 * BatchSize

\* the profile requests of the async coordinator that await their response
InFlight == {i \in DOMAIN tasks : tasks[i].st = "fetching"}

(* C12: at every instant of a crawl at most batch-size many profile        *)
(* requests are in flight, whatever the number of players queued.          *)
C12_InFlightWithinLimit ==
    Cardinality(InFlight) <= BatchSize

(* C13: a crawl whose item catalog could not be fetched is aborted with an *)
(* error before any player is queued or fetched: no crawl runs on an empty *)
(* substitute catalog.                                                     *)
C13_CatalogFailureAbortsCrawl ==
    items = EmptyDict =>
        /\ pc # "returned"
        /\ tasks = <<>>
        /\ \A p \in Players : Fetches(p) = 0

\* the step on which the browser coordinator handles the response it found
\* for p, the body being a decodable profile that parses
MergesGoodResponse(p) ==
    /\ pc = "waiting" /\ pc' = "waiting"
    /\ \E i \in DOMAIN active_users : active_users[i] = p
    /\ \A i \in DOMAIN active_users' : active_users'[i] # p
    /\ LET body == get_user_profile_response(requests, p)
       IN IF body.got THEN IF body.brotli THEN body.text = GoodPayload ELSE FALSE
          ELSE FALSE

(* C14: a failure that concerns one player (page not opened, no response,  *)
(* undecodable body, tab not closed) never ends the crawl of the browser   *)
(* coordinator with an error: the crawl returns only after every roster    *)
(* player was dispatched, and every good response that is handled is       *)
(* merged under its player whatever failed before.                         *)
C14_PlayerFailuresDoNotAbort ==
    /\ [](pc # "raised")
    /\ [](pc = "returned" => \A p \in RosterSet : opens[p] >= 1)
    /\ [][\A p \in BrowserPlayers :
            MergesGoodResponse(p) =>
                /\ p \in DOMAIN cache'
                /\ cache'[p] = PlayerData(parse_inventory(GoodPayload),
                                          parse_vehicles(GoodPayload.personal_vehicles,
                                                         VehicleDict),
                                          strftime(now))]_vars

\* the crawl returned: Bob was given up, a tab was left open, and Alice,
\* unknown before the crawl, was processed and is cached
C14_Witness ==
    /\ pc = "returned" /\ Len(roster) = 3
    /\ "Bob" \in failed /\ windows # {}
    /\ "Alice" \in processed
    /\ "Alice" \in DOMAIN cache /\ "Alice" \notin DOMAIN before

UnusableStates == {"missing", "corrupt", "malformed"}

(* C16: loading a missing file, a file that is not JSON or a file with a   *)
(* malformed entry yields the empty primary store and the empty index, on  *)
(* which get_player returns None and both find_users_* return nothing.     *)
C16_LoadFallsBackToEmpty ==
    disk.state \in UnusableStates =>
        LET r == load_cache(disk)
        IN /\ r = <<EmptyDict, EmptyDict>>
           /\ \A p \in Players : get_player(r[1], p) = NoPlayer
           /\ \A item_name \in ItemNames :
                 ViewMapping(find_users_with_item(items, r[2], item_name), r[2])
                     = EmptyDict
           /\ \A n \in VehicleNames : find_users_with_vehicle(r[2], n) = {}

\* the process was started on a file that holds records next to a malformed
\* entry, and its cache is empty
C16_Witness ==
    /\ disk.state = "malformed" /\ DOMAIN disk.data = {"Alice", "Bob"}
    /\ cache = EmptyDict /\ lookup_cache = EmptyDict

(* C17: when the payload upserted for a player holds two entries of item   *)
(* 'pistol' carrying the quantities 2 and 1 and no vehicle, the player's   *)
(* record then counts 3 pistols and find_users_with_item('Pistol') maps    *)
(* the player to 3.                                                        *)
C17_QuantitiesAreSummed ==
    [][\A p \in Players :
          UpdatePlayerCall(p, QuantityPayload) =>
              /\ get_player(cache', p).items["pistol"].count = 3
              /\ ViewMapping(find_users_with_item(items, lookup_cache', "Pistol"),
                             lookup_cache')[p] = 3]_vars

(* C18: an upsert whose payload names a vehicle hash missing from the      *)
(* catalog stores the record all the same: that vehicle under the name     *)
(* 'Unknown Vehicle', the known vehicle and the items as well, and         *)
(* find_users_with_vehicle('Unknown Vehicle') includes the player.         *)
C18_UnknownVehicleFallsBack ==
    [][\A p \in Players :
          UpdatePlayerCall(p, RichPayload) =>
              /\ get_player(cache', p).vehicles
                   = <<PlayerVehicle(UnknownHash, "Unknown Vehicle"),
                       PlayerVehicle(1, "Sultan")>>
              /\ get_player(cache', p).items = ("pistol" :> PlayerItem("pistol", 2))
              /\ p \in find_users_with_vehicle(lookup_cache', "Unknown Vehicle")
              /\ p \in find_users_with_vehicle(lookup_cache', "Sultan")]_vars

\* Alice was just upserted with the payload that names the unknown hash and
\* is found under the fallback name
C18_Witness ==
    /\ last_call.made /\ last_call.player_name = "Alice"
    /\ last_call.record = RecordOf(RichPayload, now)
    /\ get_player(cache, "Alice") = RecordOf(RichPayload, now)
    /\ "Alice" \in find_users_with_vehicle(lookup_cache, "Unknown Vehicle")

\* the step on which the browser coordinator handles the response it found
\* for p, the body being one that brotli cannot decompress
HandlesUndecodableResponse(p) ==
    /\ pc = "waiting" /\ pc' = "waiting"
    /\ \E i \in DOMAIN active_users : active_users[i] = p
    /\ \A i \in DOMAIN active_users' : active_users'[i] # p
    /\ LET body == get_user_profile_response(requests, p)
       IN IF body.got THEN ~body.brotli ELSE FALSE

(* C19: the tab opened for a player is closed on the failure paths as on   *)
(* the success path: when the player's response cannot be decoded, the     *)
(* step that takes the player out of the batch leaves no tab of that       *)
(* player open (no later step of the batch closes a tab of a player that   *)
(* is no longer active).                                                   *)
C19_TabClosedOnDecodeError ==
    [][\A p \in BrowserPlayers :
          HandlesUndecodableResponse(p) => p \notin windows']_vars

\* where a player stands in a crawl of the async coordinator: the number of
\* its queue entries, of its coroutines not yet resolved, and 1 for being
\* given up, 1 for being processed
Queued(p) == Cardinality({k \in DOMAIN players_queue : players_queue[k] = p})
Unresolved(p) ==
    Cardinality({i \in TasksOf(p) : tasks[i].st \in {"new", "fetching"}})
GivenUp(p) == IF p \in log_results_failed(retry_counts) THEN 1 ELSE 0
Completed(p) == IF p \in processed THEN 1 ELSE 0

(* C20: at every instant of a crawl each player is in at most one of:      *)
(* pending in the queue, in flight, terminally failed, completed; no name  *)
(* is queued or in flight twice, or queued after it completed or failed.   *)
C20_OnePlaceAtATime ==
    pc = "gather" =>
        \A p \in Players :
            Queued(p) + Unresolved(p) + GivenUp(p) + Completed(p) <= 1

\* player_attempts.get(player_name, 0)
Attempts(attempts_of, p) == IF p \in DOMAIN attempts_of THEN attempts_of[p] ELSE 0

InQueue(q, p) == \E k \in DOMAIN q : q[k] = p

\* the step on which the batch ends with p still waiting for its response
TimesOut(p) ==
    /\ pc = "waiting" /\ pc' = "loop"
    /\ InQueue(active_users, p)

\* a fetch of p fails on this step of the browser coordinator: the page is
\* not opened, the response does not come in time, or it cannot be decoded
FetchFails(p) ==
    \/ /\ pc = "loop" /\ pc' = "waiting"    \* taken from a queue, not opened
       /\ opens'[p] > opens[p]
       /\ ~InQueue(active_users', p)
    \/ TimesOut(p)
    \/ HandlesUndecodableResponse(p)

(* C21: each failed fetch of a player adds exactly one to its attempt      *)
(* count; the player is put on the retry queue iff the new count is below  *)
(* max_retries, else it is among the failed players, and a player whose    *)
(* count reached max_retries is not dispatched again in the crawl.         *)
C21_FailureCountsOneAttempt ==
    [][\A p \in BrowserPlayers :
          /\ FetchFails(p) =>
                /\ Attempts(player_attempts', p) = Attempts(player_attempts, p) + 1
                /\ InQueue(retry_queue', p)
                       <=> Attempts(player_attempts', p) < max_retries
                /\ Attempts(player_attempts', p) >= max_retries
                       => p \in failed_players(player_attempts')
          /\ Attempts(player_attempts, p) >= max_retries
                => opens'[p] = opens[p]]_vars

\* the contributions of p to the index l: key -> quantity
ContributionsOf(l, p) ==
    [K \in {k \in DOMAIN l : p \in DOMAIN l[k]} |-> l[K][p]]

\* get_player(p) returns the same on c and on d: None on both, or one record
SameRecord(c, d, p) ==
    /\ p \in DOMAIN c <=> p \in DOMAIN d
    /\ p \in DOMAIN c => get_player(c, p) = get_player(d, p)

(* C22: when update_player fails part-way for a player (building the       *)
(* record from the payload's user object raises), the player's record and  *)
(* the player's contributions to the index are what they were before the   *)
(* call: the old index entries are not removed while the old record stays. *)
C22_FailedUpsertChangesNothing ==
    [][\A p \in Players :
          UpdatePlayerCall(p, NullUserPayload) =>
              /\ SameRecord(cache', cache, p)
              /\ ContributionsOf(lookup_cache', p) = ContributionsOf(lookup_cache, p)]_vars

(* C23: update_player with a payload that is not a decodable envelope or   *)
(* that lacks the 'user' object creates no record and replaces none: the   *)
(* player's record and index contributions are what they were.             *)
C23_MalformedPayloadStoresNothing ==
    [][\A p \in Players, k \in {"garbage", "notdict", "nouser"} :
          UpdatePlayerCall(p, [kind |-> k]) =>
              /\ SameRecord(cache', cache, p)
              /\ ContributionsOf(lookup_cache', p) = ContributionsOf(lookup_cache, p)]_vars

\* a primary store without the times of its upserts
WithoutLastUpdated(c) ==
    [p \in DOMAIN c |-> [items |-> c[p].items, vehicles |-> c[p].vehicles]]

\* <<cache, lookup_cache>> after the upserts of a batch ran one after the
\* other, in the order of the batch
RECURSIVE RunInOrder(_, _)
RunInOrder(batch, st) ==
    IF batch = <<>> THEN st
    ELSE LET r == update_player(st[1], st[2], Head(batch).player, Head(batch).data,
                                VehicleDict, 0)
         IN RunInOrder(Tail(batch), r)

(* C24: concurrent upserts of distinct players leave, in whatever order    *)
(* they complete, the same primary store (last_updated aside) and the same *)
(* index, those of the upserts run one after the other; and in each of     *)
(* these final states P is in the index entry of K iff P's record          *)
(* contains K.                                                             *)
C24_UpsertsCommute ==
    (Len(tasks) > 1 /\ \A i \in DOMAIN tasks : tasks[i].st = "done") =>
        LET serial == RunInOrder(tasks, <<before, rebuild_lookup_cache(before)>>)
        IN /\ WithoutLastUpdated(cache) = WithoutLastUpdated(serial[1])
           /\ lookup_cache = serial[2]
           /\ \A P \in Players, K \in IndexKeys :
                 InIndex(lookup_cache, K, P) <=> RecordContains(cache, P, K)

\* the step on which a batch is composed and its pages are requested
ComposesBatch == pc = "loop" /\ pc' = "waiting"
\* the times p was taken into the batch composed on this step
Dispatched(p) == opens'[p] - opens[p]

(* C25: when the retry queue is not empty as a batch is composed, the      *)
(* batch is taken from the retry queue and the work queue is left as it    *)
(* is; a batch holds at most batch_size players, none of them twice.       *)
C25_RetryQueueFirst ==
    [][ComposesBatch =>
          /\ retry_queue # <<>> =>
                /\ players_queue' = players_queue
                /\ \A p \in BrowserPlayers :
                      Dispatched(p) > 0 => InQueue(retry_queue, p)
                /\ \E p \in BrowserPlayers : Dispatched(p) > 0
          /\ SumOver([p \in BrowserPlayers |-> Dispatched(p)], BrowserPlayers)
                 <= BatchSize
          /\ \A p \in BrowserPlayers : Dispatched(p) <= 1]_vars

\* a batch made of the one player of the retry queue is being awaited while
\* the last player of the roster is still on the work queue
C25_Witness ==
    /\ pc = "waiting"
    /\ players_queue # <<>> /\ retry_queue = <<>>
    /\ Len(active_users) = 1
    /\ Attempts(player_attempts, active_users[1]) = 1
    /\ opens[active_users[1]] = 2
    /\ opens[players_queue[1]] = 0

(* C26: every roster player is eventually dispatched at least once in a   *)
(* crawl of the browser coordinator: the retry queue being served first    *)
(* does not keep a player of the work queue waiting forever, also when the *)
(* retried players fail every time.                                        *)
C26_EveryPlayerDispatched ==
    <>(\A p \in RosterSet : opens[p] >= 1)

\* the last player of the work queue is dispatched after the two players
\* before it failed max_retries times each
C26_Witness ==
    /\ pc = "waiting" /\ Len(roster) = 3
    /\ active_users = <<roster[3]>> /\ opens[roster[3]] = 1
    /\ opens[roster[1]] = max_retries /\ opens[roster[2]] = max_retries
    /\ failed_players(player_attempts) = {roster[1], roster[2]}

(* C27: at the start of every crawl run on one coordinator, the second and *)
(* later ones included, the work queue holds each roster player exactly    *)
(* once, with retry count 0, and nothing else: no entry re-queued during   *)
(* an earlier crawl is carried over.                                       *)
C27_QueueIsTheRosterAtStart ==
    [][(pc # "gather" /\ pc' = "gather") =>
          /\ [i \in DOMAIN tasks' |-> tasks'[i].player] = roster'
          /\ \A i \in DOMAIN roster' : retry_counts'[roster'[i]] = 0]_vars

(* C28: when scrape_all_players is started again while an earlier call is  *)
(* still awaiting its fetches, the processed set of the running crawl is   *)
(* not cleared and its retry counts are not reset while it runs, and no    *)
(* player is being fetched by the two crawls at the same time.             *)
C28_SecondCommandLeavesCrawlAlone ==
    /\ [][\A c \in Commands :
             (pc[c] = "gather" /\ pc'[c] = "gather") =>
                 /\ processed \subseteq processed'
                 /\ \A p \in DOMAIN retry_counts :
                       retry_counts'[p] >= retry_counts[p]]_vars
    /\ [](\A i, j \in InFlight :
             tasks[i].crawl # tasks[j].crawl => tasks[i].player # tasks[j].player)

\* the response to the profile request that the tab of p sent
OwnResponse(reqs, p) ==
    LET own == {i \in DOMAIN reqs : reqs[i].player = p}
    IN IF own = {} THEN NoResponse
       ELSE reqs[CHOOSE i \in own : \A j \in own : i <= j].response

(* C29: the payload the browser coordinator merges into the cache under a  *)
(* player's name is the response to that player's own profile request,     *)
(* never the response to the request of another player of the batch, also  *)
(* when one name is a prefix of another.                                   *)
C29_OwnResponseMerged ==
    [][\A p \in BrowserPlayers :
          MergesGoodResponse(p) =>
              get_user_profile_response(requests, p) = OwnResponse(requests, p)]_vars

(* C30: the browser coordinator composes the next batch only when every   *)
(* player dispatched in the current one has been handled or has timed out, *)
(* and a player still waiting at the batch timeout is resolved as a        *)
(* failure: it is on the retry queue or among the failed players after the *)
(* cleanup, never left out of both.                                        *)
C30_BatchResolvedBeforeNext ==
    [][/\ ComposesBatch => active_users = <<>>
       /\ \A p \in BrowserPlayers :
             TimesOut(p) =>
                 \/ InQueue(retry_queue', p)
                 \/ p \in failed_players(player_attempts')]_vars

\* the entries of a raw list that carry the key k
Occurrences(source_items, k) ==
    Cardinality({i \in DOMAIN source_items : source_items[i].item_key = k})

\* the count a record holds for the key k, 0 when it does not name k
ParsedCount(player_data, k) ==
    IF k \in DOMAIN player_data.items THEN player_data.items[k].count ELSE 0

(* C31: for every payload the parsed count of an item key is the number of *)
(* entries with that key in the inventory list and the mailbox list taken  *)
(* together, in whatever order they come; entries without a key are       *)
(* skipped (no record entry is made for them) and the record is stored.    *)
C31_CountIsNumberOfEntries ==
    \A i \in DOMAIN tasks :
        tasks[i].st = "done" =>
            /\ tasks[i].player \in DOMAIN cache
            /\ DOMAIN cache[tasks[i].player].items \subseteq ParserKeys
            /\ \A k \in ParserKeys :
                  ParsedCount(cache[tasks[i].player], k)
                      = Occurrences(tasks[i].data.Items, k)
                        + Occurrences(tasks[i].data.PostOfficeItems, k)

\* a payload with the pistol after an entry without key in the inventory and
\* after the knife in the mailbox was parsed: two pistols, one knife
C31_Witness ==
    /\ tasks[1].st = "done"
    /\ tasks[1].data.Items = <<[item_key |-> NoKey], [item_key |-> "pistol"]>>
    /\ tasks[1].data.PostOfficeItems = <<[item_key |-> "knife"], [item_key |-> "pistol"]>>
    /\ ParsedCount(cache[tasks[1].player], "pistol") = 2
    /\ ParsedCount(cache[tasks[1].player], "knife") = 1

(* C32: upserting the same payload for the same player a second time       *)
(* leaves the primary store (last_updated aside) and the index as the      *)
(* first upsert left them: counts are overwritten, not accumulated.        *)
C32_UpsertIsIdempotent ==
    [][(/\ \E i \in DOMAIN tasks : tasks[i].st = "done"
        /\ \E i \in DOMAIN tasks : tasks[i].st = "new"
        /\ \A i \in DOMAIN tasks' : tasks'[i].st = "done") =>
          /\ WithoutLastUpdated(cache') = WithoutLastUpdated(cache)
          /\ lookup_cache' = lookup_cache]_vars

\* Alice, cached before, was upserted twice with the payload that holds two
\* pistols, the second time a second later: she has two pistols
C32_Witness ==
    /\ \A i \in DOMAIN tasks : tasks[i] = [Upsert("Alice", RichPayload) EXCEPT !.st = "done"]
    /\ "Alice" \in DOMAIN before
    /\ cache["Alice"].last_updated = strftime(MaxClock)
    /\ ParsedCount(cache["Alice"], "pistol") = 2
    /\ lookup_cache["pistol"]["Alice"] = 2

(* C33: the index keys of items and the index keys of vehicles are         *)
(* disjoint for every item key and vehicle name a payload can carry: no    *)
(* record holds an item whose key is the index key of a vehicle, and who   *)
(* is found under a vehicle name has a vehicle of that name.               *)
C33_ItemAndVehicleKeysDisjoint ==
    \A P \in DOMAIN cache :
        /\ DOMAIN cache[P].items \cap {VehicleKey(n) : n \in VehicleNames} = {}
        /\ \A n \in VehicleNames :
              P \in find_users_with_vehicle(lookup_cache, n)
                  => VehicleKey(n) \in VehicleKeys(cache[P])

(* C34: initialize_data of the browser coordinator puts every roster      *)
(* player on the work queue and returns, for every roster size, a roster   *)
(* longer than queue_size included: filling the queue never blocks         *)
(* forever.                                                                *)
C34_InitializationReturns ==
    pc = "filling" ~> (pc = "loop" /\ players_queue = roster)

(* C8: a roster player whose every fetch of the crawl failed is in the     *)
(* failed list when the crawl returns, and get_player returns for it what  *)
(* it returned before the crawl.                                           *)
C8_FailedPlayerReportedAndUntouched ==
    pc = "returned" =>
        \A p \in RosterSet :
            (/\ Fetches(p) > 0
             /\ \A i \in TasksOf(p) : tasks[i].st = "failed")
            => /\ p \in failed
               /\ get_player(cache, p) = get_player(before, p)

(* C9: a player whose payload cannot be parsed is recorded as failed for   *)
(* the crawl: not counted as processed, not retried; every other player    *)
(* whose payload was merged is still processed and cached.                 *)
C9_MalformedPayloadIsAFailure ==
    pc = "returned" =>
        \A i \in DOMAIN tasks :
            tasks[i].st = "malformed" =>
                /\ tasks[i].player \notin processed
                /\ tasks[i].player \in failed
                /\ \A k \in DOMAIN players_queue : players_queue[k] # tasks[i].player
                /\ \A j \in DOMAIN tasks :
                      (tasks[j].player # tasks[i].player /\ tasks[j].st = "merged")
                      => /\ tasks[j].player \in processed
                         /\ tasks[j].player \in DOMAIN cache

(* C10: with an empty roster scrape_all_players returns normally, with     *)
(* nothing processed and nothing failed, having issued no profile request  *)
(* and without saving the cache.                                           *)
C10_EmptyRosterReturnsAtOnce ==
    (pc \in {"returned", "raised"} /\ roster = <<>>) =>
        /\ pc = "returned"
        /\ processed = {} /\ failed = {}
        /\ \A p \in Players : Fetches(p) = 0
        /\ saves = 0

====
